---- MODULE Spec2Model ----
(***************************************************************************)
(* Model of burgerbot.py: class Bot.  Two threads run for the lifetime of  *)
(* the process (Bot.start): the parse thread (Bot.__parse, the poll loop)  *)
(* and the telegram dispatcher thread, which runs the /start and /stop     *)
(* handlers one update at a time.  They share self.chats and chats.json    *)
(* without any lock; self.cache and self.proxy_on belong to the parse      *)
(* thread.                                                                 *)
(*                                                                         *)
(* Python lists are objects: self.chats is a reference into a heap of list *)
(* objects.  list.append changes the object in place, the comprehension of *)
(* __remove_chat builds a new object and rebinds self.chats, and the `for` *)
(* of __send_message keeps iterating the object it started on.  A step of  *)
(* the model is a stretch of code between two points where the other       *)
(* thread can observe or change the shared registry.                       *)
(*                                                                         *)
(* Time passes in the requests and in the sleeps of the parse thread; the  *)
(* clock is monotonic.  Writing chats.json is assumed not to raise.        *)
(* The local time zone of the process is fixed when it starts.             *)
(*                                                                         *)
(* Spec and LiveSpec hold every outcome of a request, of parsing and of a  *)
(* delivery; SteadySpec holds the runs in which every cycle completes.     *)
(***************************************************************************)
EXTENDS Integers, Sequences, FiniteSets, TLC

VARIABLES
    heap,       \* list objects: reference -> content
    chats,      \* self.chats: a reference
    store,      \* content of chats.json, as tokens; empty right after open(..,'w')
    cache,      \* self.cache: sequence of Message(message, ts)
    proxy_on,   \* self.proxy_on
    now,        \* int(time.time()), counted from process start
    pc,         \* position of the parse thread in __parse / __send_message
    page,       \* response content held between fetch and parse
    slots,      \* slots of the page not yet visited by `for slot in slots`
    msg,        \* identifier __send_message is delivering
    it,         \* `for c in self.chats`: the list object iterated and the next index
    reg,        \* per thread: position in __add_chat/__remove_chat/__persist_chats
    cpc,        \* dispatcher thread: handler being run
    cmds,       \* commands still to arrive in the run
    slowFetches, \* requests that took noticeable time so far
    horizon,    \* the run is observed up to this time
    tz,         \* local time zone of the process: seconds east of UTC
    hist        \* observations of the run (no effect on the program)

vars == <<heap, chats, store, cache, proxy_on, now, pc, page, slots,
          msg, it, reg, cpc, cmds, slowFetches, horizon, tz, hist>>

---------------------------------------------------------------------------
\* Program constants.
PollSleep == 45
BackoffSleep == 300
CacheWindow == 300
TooManyRequests == 429
BerlinOffset == 7200

\* Bounds of the model.
MaxTime == 360
MaxSlowFetches == 1
MaxCmds == 2
BusyTime == 0
MaxSteadyTime == 810

---------------------------------------------------------------------------
\* Values.
Threads == {"parse", "dispatcher"}
Chats == {1, 2}
Refs == 1 .. 4
NoRef == 0

\* A string is modelled as its sequence of tokens: "/" or a run of other characters.
SlotA == <<"/", "time", "/", "1700000000", "/">>
SlotBad == <<"/", "time", "/", "today", "/">>
Hrefs == {SlotA, SlotBad}
\* A bookable cell is modelled as the sequence of its anchors' hrefs: slot.a is the
\* first, or None when there is none.
NoAnchor == <<>>

\* Seconds a request may take.  Requests that take noticeable time are budgeted
\* (MaxSlowFetches) to keep the set of reachable clock values small.
FetchLatencies == {0, 29, 30}
\* Status codes the site answers with.
Statuses == {200, 429}
Slow(d) == d > 0
MaxLatency == CHOOSE d \in FetchLatencies : \A e \in FetchLatencies : e <= d

Range(s) == {s[i] : i \in 1 .. Len(s)}
\* The pages served: the bookable cells of each, in document order.
Pages ==
    {<<>>, <<<<SlotA>>>>, <<<<SlotBad>>, <<SlotA>>>>, <<NoAnchor, <<SlotA>>>>,
     <<<<SlotA>>, <<SlotA>>>>}
NoDup(s) == \A i, j \in 1 .. Len(s) : i # j => s[i] # s[j]
\* chats.json at startup: the duplicate-free lists, one of each up to a renaming
\* of the chats.
StartupLists == {<<>>, <<1>>, <<1, 2>>}

---------------------------------------------------------------------------
\* Pure functions of the program.

\* str.split('/') on the token sequence: the segments, each a token sequence.
RECURSIVE Split(_)
Split(s) ==
    IF s = <<>> THEN << <<>> >>
    ELSE IF Head(s) = "/" THEN << <<>> >> \o Split(Tail(s))
    ELSE LET rest == Split(Tail(s))
         IN  << <<Head(s)>> \o Head(rest) >> \o Tail(rest)

\* int(str): the value, or -1 for ValueError.
IntOf(seg) ==
    CASE seg = <<"1700000000">> -> 1700000000
      [] OTHER -> -1

\* msg_arr[len(msg_arr) - 2]: Python counts a negative index from the end.
SecondToLast(arr) ==
    LET i == Len(arr) - 2
    IN  IF i >= 0 THEN arr[i + 1] ELSE arr[Len(arr) + i + 1]

\* __date_from_msg up to the epoch it formats; -1 when int() raises.
DateEpoch(m) ==
    LET v == IntOf(SecondToLast(Split(m)))
    IN  IF v < 0 THEN -1 ELSE v + BerlinOffset

DateRaises(m) == DateEpoch(m) < 0

\* Time zones the process may run in, as seconds east of UTC at the dates of the
\* slots: New York, UTC, Berlin.
UtcOffsets == {-18000, 0, 3600}

SecondsPerDay == 86400

\* The calendar date of a day counted from 1970-01-01 (proleptic Gregorian
\* calendar, as datetime computes it).
CivilFromDays(days) ==
    LET z == days + 719468
        era == z \div 146097
        doe == z - era * 146097
        yoe == (doe - (doe \div 1460) + (doe \div 36524) - (doe \div 146096)) \div 365
        doy == doe - (365 * yoe + (yoe \div 4) - (yoe \div 100))
        mp == (5 * doy + 2) \div 153
    IN  [day |-> doy - ((153 * mp + 2) \div 5) + 1,
         month |-> IF mp < 10 THEN mp + 3 ELSE mp - 9]

\* datetime.fromtimestamp(ts) without a tz argument: the date on the local clock
\* of a process off seconds east of UTC.
FromTimestamp(ts, off) == CivilFromDays((ts + off) \div SecondsPerDay)

\* datetime.utcfromtimestamp(ts): the date in UTC.
UtcFromTimestamp(ts) == CivilFromDays(ts \div SecondsPerDay)

MonthNames ==
    <<"January", "February", "March", "April", "May", "June", "July", "August",
      "September", "October", "November", "December">>

\* strftime("%d %B"), as tokens: two digits, a blank, the name of the month.
Strftime(date) ==
    <<date.day \div 10, date.day % 10, " ", MonthNames[date.month]>>

\* __date_from_msg, in a process off seconds east of UTC
DateFromMsg(m, off) == Strftime(FromTimestamp(DateEpoch(m), off))

\* __msg_in_cache
MsgInCache(c, m) == \E i \in 1 .. Len(c) : c[i].message = m

\* A bug __add_msg_to_cache could have: the message is not recorded.
AddMsgToCacheDropped(c, m, t) == c

\* __add_msg_to_cache
AddMsgToCache(c, m, t) == Append(c, [message |-> m, ts |-> t])

\* A bug __clear_cache could have: <= for <.
ClearCacheOffByOne(c, cur_ts) ==
    LET fresh(e) == (cur_ts - e.ts) <= CacheWindow
    IN  IF Len(c) > 0 THEN SelectSeq(c, fresh) ELSE c

\* A bug __clear_cache could have: the window is a second short, an entry 299
\* seconds old is dropped.
ClearCacheShort(c, cur_ts) ==
    LET fresh(e) == (cur_ts - e.ts) < CacheWindow - 1
    IN  IF Len(c) > 0 THEN SelectSeq(c, fresh) ELSE c

\* A bug __clear_cache could have: the comparison is the wrong way round.
ClearCacheInverted(c, cur_ts) ==
    LET stale(e) == (cur_ts - e.ts) >= CacheWindow
    IN  IF Len(c) > 0 THEN SelectSeq(c, stale) ELSE c

\* __clear_cache
ClearCache(c, cur_ts) ==
    LET fresh(e) == (cur_ts - e.ts) < CacheWindow
    IN  IF Len(c) > 0 THEN SelectSeq(c, fresh) ELSE c

\* A bug the comprehension could have: == for !=.
WithoutChatInverted(l, chat_id) ==
    LET same(c) == c = chat_id
    IN  SelectSeq(l, same)

\* the comprehension of __remove_chat
WithoutChat(l, chat_id) ==
    LET other(c) == c # chat_id
    IN  SelectSeq(l, other)

\* json.dump of a list of ints, as tokens: "[", the numbers separated by ",", "]".
IntStr(n) == IF n = 1 THEN "1" ELSE IF n = 2 THEN "2" ELSE "?"
StrInt(t) == IF t = "1" THEN 1 ELSE IF t = "2" THEN 2 ELSE 0

RECURSIVE JsonItems(_)
JsonItems(l) ==
    IF l = <<>> THEN <<>>
    ELSE IF Len(l) = 1 THEN <<IntStr(l[1])>>
    ELSE <<IntStr(l[1]), ",">> \o JsonItems(Tail(l))

JsonDump(l) == <<"[">> \o JsonItems(l) \o <<"]">>

\* json.load of such a file: the numbers between the brackets.
JsonLoad(f) ==
    LET num(t) == t \notin {"[", ",", "]"}
        toks == SelectSeq(f, num)
    IN  [i \in 1 .. Len(toks) |-> StrInt(toks[i])]

\* __get_url: the proxies argument of requests.get
GetUrl(proxy) == IF proxy THEN "socks5" ELSE "direct"

\* __toggle_proxy
ToggleProxy(p) == ~p

---------------------------------------------------------------------------
\* The heap of list objects.
Idle == [pc |-> "none", chat |-> 0, ref |-> NoRef]
NoIter == [ref |-> NoRef, idx |-> 0]
NoCmd == [op |-> "idle", chat |-> 0]

LiveRefs(c, i, r) == ({c, i.ref} \cup {r[t].ref : t \in Threads}) \ {NoRef}

\* Unreferenced objects are garbage: their slots are cleared for reuse.
Collect(h, live) == [x \in Refs |-> IF x \in live THEN h[x] ELSE <<>>]

NewRef(live) == CHOOSE x \in Refs \ live : \A y \in Refs \ live : x <= y

Registry == heap[chats]

---------------------------------------------------------------------------
HistInit ==
    [lastTs |-> [h \in Hrefs |-> -1],      \* cache timestamp of the last broadcast
     expired |-> [h \in Hrefs |-> FALSE],  \* __clear_cache ran at >= t+300 since
     repeated |-> [h \in Hrefs |-> FALSE], \* recorded more than once
     seenInWindow |-> FALSE,               \* SlotA seen on a page inside (t, t+300)
     subscribed |-> {},                    \* /start completed, no removal since
     voided |-> FALSE,                     \* the chat of the running /start was removed
     stopped |-> {},                       \* /stop completed, no /start since
     bStart |-> <<>>,                      \* registry when the delivery loop began
     attempts |-> <<>>,                    \* chats send_message was called for
     blocked |-> {},                       \* chats whose delivery said "blocked"
     quiet |-> TRUE,                       \* no handler ran during the broadcast
     raised |-> "none"]                    \* what the top-level handler caught, while
                                           \* the sleep after it lasts

\* The runs observed: a long run in which no command arrives, or a short one in
\* which up to MaxCmds commands arrive, both on a machine whose clock is set to
\* UTC; and a short run without commands in each of the time zones.
Workloads ==
    {[horizon |-> MaxTime, cmds |-> 0, tz |-> 0],
     [horizon |-> BusyTime, cmds |-> MaxCmds, tz |-> 0]}
      \cup {[horizon |-> BusyTime, cmds |-> 0, tz |-> z] : z \in UtcOffsets}

\* __init__ in a run of workload w: __get_chats loads chats.json (lines 37-40),
\* lines 33-34
InitIn(w) ==
    /\ \E l \in StartupLists :
          /\ store = JsonDump(l)
          /\ heap = [x \in Refs |-> IF x = 1 THEN JsonLoad(store) ELSE <<>>]
    /\ horizon = w.horizon
    /\ cmds = w.cmds
    /\ tz = w.tz
    /\ chats = 1
    /\ cache = <<>>
    /\ proxy_on = FALSE
    /\ now = 0
    /\ pc = "Fetching"
    /\ page = <<>>
    /\ slots = <<>>
    /\ msg = <<>>
    /\ it = NoIter
    /\ reg = [t \in Threads |-> Idle]
    /\ cpc = NoCmd
    /\ slowFetches = 0
    /\ hist = HistInit

Init == \E w \in Workloads : InitIn(w)

---------------------------------------------------------------------------
\* The parse thread: __parse.

\* self.__get_url() takes d seconds.
Request(d) ==
    /\ pc = "Fetching"
    /\ now + d <= horizon
    /\ Slow(d) => slowFetches < MaxSlowFetches
    /\ now' = now + d
    /\ slowFetches' = IF Slow(d) THEN slowFetches + 1 ELSE slowFetches

\* line 81, and line 82 with a status other than 429
FetchOk ==
    \E d \in FetchLatencies, status \in Statuses, p \in Pages :
        /\ Request(d)
        /\ status # TooManyRequests
        /\ page' = p
        /\ pc' = "Parsing"
        /\ UNCHANGED <<heap, chats, store, cache, proxy_on, slots, msg, it, reg,
                       cpc, cmds, horizon, tz, hist>>

\* lines 82-83: status 429
FetchRateLimited ==
    \E d \in FetchLatencies, status \in Statuses :
        /\ Request(d)
        /\ status = TooManyRequests
        /\ pc' = "Backoff"
        /\ UNCHANGED <<heap, chats, store, cache, proxy_on, page, slots, msg, it,
                       reg, cpc, cmds, horizon, tz, hist>>

\* A bug lines 84-86 could have: no `continue`, so that line 103 sleeps as well.
BackoffThenSleep ==
    /\ pc = "Backoff"
    /\ now + BackoffSleep <= horizon
    /\ now' = now + BackoffSleep
    /\ proxy_on' = ~proxy_on
    /\ pc' = "Sleeping"
    /\ UNCHANGED <<heap, chats, store, cache, page, slots, msg, it, reg, cpc, cmds,
                   slowFetches, horizon, tz, hist>>

\* lines 84-86: time.sleep(300), toggle, continue (the sleep of line 103 is skipped)
Backoff ==
    /\ pc = "Backoff"
    /\ now + BackoffSleep <= horizon
    /\ now' = now + BackoffSleep
    /\ proxy_on' = ToggleProxy(proxy_on)
    /\ pc' = "Fetching"
    /\ UNCHANGED <<heap, chats, store, cache, page, slots, msg, it, reg, cpc, cmds,
                   slowFetches, horizon, tz, hist>>

\* A bug the handler could have: the exception is logged and nothing else.
HandlerOnlyLogs ==
    /\ proxy_on' = proxy_on
    /\ pc' = "Sleeping"

\* A bug the handler could have: the exception is raised again and ends the thread.
HandlerReraises ==
    /\ proxy_on' = ~proxy_on
    /\ pc' = "Ended"

\* the handler of lines 100-102
TopLevelHandler ==
    /\ proxy_on' = ToggleProxy(proxy_on)
    /\ pc' = "Sleeping"

\* requests.get raises
FetchRaises ==
    \E d \in FetchLatencies :
        /\ Request(d)
        /\ TopLevelHandler
        /\ hist' = [hist EXCEPT !.raised = "fetch"]
        /\ UNCHANGED <<heap, chats, store, cache, page, slots, msg, it, reg, cpc,
                       cmds, horizon, tz>>

\* lines 87-89: BeautifulSoup and find_all
ParseOk ==
    /\ pc = "Parsing"
    /\ slots' = page
    /\ page' = <<>>
    /\ pc' = "Slots"
    /\ UNCHANGED <<heap, chats, store, cache, proxy_on, now, msg, it, reg, cpc,
                   cmds, slowFetches, horizon, tz, hist>>

\* lines 87-89 raise
ParseRaises ==
    /\ pc = "Parsing"
    /\ page' = <<>>
    /\ TopLevelHandler
    /\ hist' = [hist EXCEPT !.raised = "parse"]
    /\ UNCHANGED <<heap, chats, store, cache, now, slots, msg, it, reg, cpc, cmds,
                   slowFetches, horizon, tz>>

\* Observation: href m is on the page being walked.
Seen(h, m) ==
    LET t == h.lastTs[m]
    IN  IF m = SlotA /\ t >= 0 /\ t < now /\ now < t + CacheWindow
        THEN [h EXCEPT !.seenInWindow = TRUE] ELSE h

\* A bug lines 93-96 could have: no handler around the cell, so that the exception
\* ends the cycle in the handler of lines 100-102.
SlotWithoutAnchorEscapes ==
    /\ pc = "Slots"
    /\ slots # <<>>
    /\ Head(slots) = NoAnchor
    /\ slots' = <<>>
    /\ proxy_on' = ~proxy_on
    /\ pc' = "Sleeping"
    /\ UNCHANGED <<heap, chats, store, cache, now, page, msg, it, reg, cpc, cmds,
                   slowFetches, horizon, tz, hist>>

\* line 94 raises before the call: slot.a is None
SlotWithoutAnchor ==
    /\ pc = "Slots"
    /\ slots # <<>>
    /\ Head(slots) = NoAnchor
    /\ slots' = Tail(slots)
    /\ UNCHANGED <<heap, chats, store, cache, proxy_on, now, pc, page, msg, it,
                   reg, cpc, cmds, slowFetches, horizon, tz, hist>>

\* A bug lines 110-112 could have: seeing a cached identifier again refreshes the
\* timestamp of its entry.
SendCachedRefreshes ==
    /\ pc = "Slots"
    /\ slots # <<>>
    /\ Head(slots) # NoAnchor
    /\ MsgInCache(cache, Head(slots)[1])
    /\ slots' = Tail(slots)
    /\ cache' = [i \in 1 .. Len(cache) |->
                   IF cache[i].message = Head(slots)[1]
                   THEN [cache[i] EXCEPT !.ts = now] ELSE cache[i]]
    /\ hist' = Seen(hist, Head(slots)[1])
    /\ UNCHANGED <<heap, chats, store, proxy_on, now, pc, page, msg, it,
                   reg, cpc, cmds, slowFetches, horizon, tz>>

\* lines 110-112: the identifier is cached, __send_message returns
SendCached ==
    /\ pc = "Slots"
    /\ slots # <<>>
    /\ Head(slots) # NoAnchor
    /\ MsgInCache(cache, Head(slots)[1])
    /\ slots' = Tail(slots)
    /\ hist' = Seen(hist, Head(slots)[1])
    /\ UNCHANGED <<heap, chats, store, cache, proxy_on, now, pc, page, msg, it,
                   reg, cpc, cmds, slowFetches, horizon, tz>>

\* Observation: m is recorded in the cache with timestamp now.
Recorded(h, m) ==
    [h EXCEPT !.lastTs[m] = now, !.expired[m] = FALSE,
              !.repeated[m] = @ \/ h.lastTs[m] >= 0,
              !.seenInWindow = IF m = SlotA THEN FALSE ELSE @]

\* lines 113-114, and 115 up to the creation of the list iterator: the identifier
\* is recorded; when __date_from_msg raises, the handler of lines 95-96 takes over.
SendNew ==
    /\ pc = "Slots"
    /\ slots # <<>>
    /\ Head(slots) # NoAnchor
    /\ LET m == Head(slots)[1] IN
        /\ ~MsgInCache(cache, m)
        /\ cache' = AddMsgToCache(cache, m, now)
        /\ slots' = Tail(slots)
        /\ IF DateRaises(m)
           THEN /\ hist' = Recorded(Seen(hist, m), m)
                /\ UNCHANGED <<pc, msg, it>>
           ELSE /\ pc' = "Delivering"
                /\ msg' = m
                /\ it' = [ref |-> chats, idx |-> 1]
                /\ hist' = [Recorded(Seen(hist, m), m) EXCEPT
                              !.bStart = Registry, !.attempts = <<>>,
                              !.blocked = {},
                              !.quiet = (cpc.op = "idle")]
    /\ UNCHANGED <<heap, chats, store, proxy_on, now, page, reg, cpc, cmds,
                   slowFetches, horizon, tz>>

\* lines 115-124: one turn of `for c in self.chats`; outcome of send_message:
\* delivered, raises with "bot was blocked by the user", raises with another text
Deliver ==
    /\ pc = "Delivering"
    /\ reg["parse"].pc = "none"
    /\ it.idx <= Len(heap[it.ref])
    /\ LET c == heap[it.ref][it.idx] IN
       \E outcome \in {"ok", "blocked", "error"} :
          /\ it' = [it EXCEPT !.idx = it.idx + 1]
          /\ reg' = IF outcome = "blocked"
                    THEN [reg EXCEPT !["parse"] =
                            [pc |-> "RemoveCompute", chat |-> c, ref |-> NoRef]]
                    ELSE reg
          /\ hist' = [hist EXCEPT
                        !.attempts = Append(hist.attempts, c),
                        !.blocked = IF outcome = "blocked"
                                    THEN hist.blocked \cup {c} ELSE hist.blocked]
    /\ UNCHANGED <<heap, chats, store, cache, proxy_on, now, pc, page, slots, msg,
                   cpc, cmds, slowFetches, horizon, tz>>

\* the list iterator is exhausted: __send_message returns
DeliverDone ==
    /\ pc = "Delivering"
    /\ reg["parse"].pc = "none"
    /\ it.idx > Len(heap[it.ref])
    /\ pc' = "Slots"
    /\ msg' = <<>>
    /\ it' = NoIter
    /\ heap' = Collect(heap, LiveRefs(chats, NoIter, reg))
    /\ hist' = [hist EXCEPT !.bStart = <<>>, !.attempts = <<>>, !.blocked = {},
                            !.quiet = TRUE]
    /\ UNCHANGED <<chats, store, cache, proxy_on, now, page, slots, reg, cpc, cmds,
                   slowFetches, horizon, tz>>

\* line 99: the loop over the slots is over, __clear_cache
Expire ==
    /\ pc = "Slots"
    /\ slots = <<>>
    /\ cache' = ClearCache(cache, now)
    /\ hist' = [hist EXCEPT !.expired = [m \in Hrefs |->
                     @[m] \/ (hist.lastTs[m] >= 0 /\ now - hist.lastTs[m] >= CacheWindow)]]
    /\ pc' = "Sleeping"
    /\ UNCHANGED <<heap, chats, store, proxy_on, now, page, slots, msg, it, reg,
                   cpc, cmds, slowFetches, horizon, tz>>

\* line 103: time.sleep(45)
Sleep ==
    /\ pc = "Sleeping"
    /\ now + PollSleep <= horizon
    /\ now' = now + PollSleep
    /\ pc' = "Fetching"
    /\ hist' = [hist EXCEPT !.raised = "none"]
    /\ UNCHANGED <<heap, chats, store, cache, proxy_on, page, slots, msg, it, reg,
                   cpc, cmds, slowFetches, horizon, tz>>

---------------------------------------------------------------------------
\* The registry operations, run by thread t.  Handlers run on the dispatcher
\* thread; the parse thread calls __remove_chat from line 122.

Busy(h, t) ==
    IF t = "dispatcher" /\ pc = "Delivering" THEN [h EXCEPT !.quiet = FALSE] ELSE h

\* line 49: `chat_id not in self.chats`
AddCheck(t) ==
    /\ reg[t].pc = "AddCheck"
    /\ reg' = IF reg[t].chat \in Range(Registry)
              THEN [reg EXCEPT ![t] = Idle]
              ELSE [reg EXCEPT ![t].pc = "AddLoad"]
    /\ hist' = Busy(hist, t)
    /\ UNCHANGED <<heap, chats, store, cache, proxy_on, now, pc, page, slots, msg,
                   it, cpc, cmds, slowFetches, horizon, tz>>

\* line 51: self.chats is loaded
AddLoad(t) ==
    /\ reg[t].pc = "AddLoad"
    /\ reg' = [reg EXCEPT ![t].pc = "AddAppend", ![t].ref = chats]
    /\ hist' = Busy(hist, t)
    /\ UNCHANGED <<heap, chats, store, cache, proxy_on, now, pc, page, slots, msg,
                   it, cpc, cmds, slowFetches, horizon, tz>>

\* line 51: .append(chat_id) on the object loaded
AddAppend(t) ==
    /\ reg[t].pc = "AddAppend"
    /\ reg' = [reg EXCEPT ![t].pc = "PersistOpen", ![t].ref = NoRef]
    /\ heap' = Collect([heap EXCEPT ![reg[t].ref] = Append(@, reg[t].chat)],
                       LiveRefs(chats, it, reg'))
    /\ hist' = Busy(hist, t)
    /\ UNCHANGED <<chats, store, cache, proxy_on, now, pc, page, slots, msg, it,
                   cpc, cmds, slowFetches, horizon, tz>>

\* line 56, right-hand side: a new list without chat_id
RemoveCompute(t) ==
    /\ reg[t].pc = "RemoveCompute"
    /\ LET r == NewRef(LiveRefs(chats, it, reg)) IN
          /\ heap' = [heap EXCEPT ![r] = WithoutChat(Registry, reg[t].chat)]
          /\ reg' = [reg EXCEPT ![t].pc = "RemoveStore", ![t].ref = r]
    /\ hist' = Busy(hist, t)
    /\ UNCHANGED <<chats, store, cache, proxy_on, now, pc, page, slots, msg, it,
                   cpc, cmds, slowFetches, horizon, tz>>

\* A bug line 56 could have: the list is changed in place (as list.remove would)
\* instead of being replaced.
RemoveStoreInPlace(t) ==
    /\ reg[t].pc = "RemoveStore"
    /\ reg' = [reg EXCEPT ![t].pc = "PersistOpen", ![t].ref = NoRef]
    /\ heap' = Collect([heap EXCEPT ![chats] = heap[reg[t].ref]],
                       LiveRefs(chats, it, reg'))
    /\ hist' = Busy(hist, t)
    /\ UNCHANGED <<chats, store, cache, proxy_on, now, pc, page, slots, msg, it,
                   cpc, cmds, slowFetches, horizon, tz>>

\* line 56: self.chats is rebound to the new list
RemoveStore(t) ==
    /\ reg[t].pc = "RemoveStore"
    /\ chats' = reg[t].ref
    /\ reg' = [reg EXCEPT ![t].pc = "PersistOpen", ![t].ref = NoRef]
    /\ heap' = Collect(heap, LiveRefs(chats', it, reg'))
    /\ hist' = [Busy(hist, t) EXCEPT
                  !.subscribed = @ \ {reg[t].chat},
                  !.voided = @ \/ (cpc.op = "start" /\ cpc.chat = reg[t].chat)]
    /\ UNCHANGED <<store, cache, proxy_on, now, pc, page, slots, msg, it, cpc,
                   cmds, slowFetches, horizon, tz>>

\* line 43: open('chats.json', 'w') truncates the file
PersistOpen(t) ==
    /\ reg[t].pc = "PersistOpen"
    /\ store' = <<>>
    /\ reg' = [reg EXCEPT ![t].pc = "PersistLoad"]
    /\ hist' = Busy(hist, t)
    /\ UNCHANGED <<heap, chats, cache, proxy_on, now, pc, page, slots, msg, it,
                   cpc, cmds, slowFetches, horizon, tz>>

\* line 44: the argument self.chats is loaded
PersistLoad(t) ==
    /\ reg[t].pc = "PersistLoad"
    /\ reg' = [reg EXCEPT ![t].pc = "PersistDump", ![t].ref = chats]
    /\ hist' = Busy(hist, t)
    /\ UNCHANGED <<heap, chats, store, cache, proxy_on, now, pc, page, slots, msg,
                   it, cpc, cmds, slowFetches, horizon, tz>>

\* lines 44-45: json.dump writes the object loaded, the file is closed
PersistDump(t) ==
    /\ reg[t].pc = "PersistDump"
    /\ store' = JsonDump(heap[reg[t].ref])
    /\ reg' = [reg EXCEPT ![t] = Idle]
    /\ heap' = Collect(heap, LiveRefs(chats, it, reg'))
    /\ hist' = Busy(hist, t)
    /\ UNCHANGED <<chats, cache, proxy_on, now, pc, page, slots, msg, it, cpc,
                   cmds, slowFetches, horizon, tz>>

RegistryStep(t) ==
    \/ AddCheck(t)
    \/ AddLoad(t)
    \/ AddAppend(t)
    \/ RemoveCompute(t)
    \/ RemoveStore(t)
    \/ PersistOpen(t)
    \/ PersistLoad(t)
    \/ PersistDump(t)

---------------------------------------------------------------------------
\* The dispatcher thread: the command handlers.

\* line 61: /start from chat c arrives, __start calls __add_chat
Start ==
    \E c \in Chats :
        /\ cpc.op = "idle"
        /\ cmds > 0
        /\ cmds' = cmds - 1
        /\ cpc' = [op |-> "start", chat |-> c]
        /\ reg' = [reg EXCEPT !["dispatcher"] =
                     [pc |-> "AddCheck", chat |-> c, ref |-> NoRef]]
        /\ hist' = [Busy(hist, "dispatcher") EXCEPT !.stopped = @ \ {c}]
        /\ UNCHANGED <<heap, chats, store, cache, proxy_on, now, pc, page, slots,
                       msg, it, slowFetches, horizon, tz>>

\* line 67: /stop from chat c arrives, __stop calls __remove_chat
Stop ==
    \E c \in Chats :
        /\ cpc.op = "idle"
        /\ cmds > 0
        /\ cmds' = cmds - 1
        /\ cpc' = [op |-> "stop", chat |-> c]
        /\ reg' = [reg EXCEPT !["dispatcher"] =
                     [pc |-> "RemoveCompute", chat |-> c, ref |-> NoRef]]
        /\ hist' = Busy(hist, "dispatcher")
        /\ UNCHANGED <<heap, chats, store, cache, proxy_on, now, pc, page, slots,
                       msg, it, slowFetches, horizon, tz>>

\* lines 62-63 and 68: reply_text, the handler returns
Reply ==
    /\ cpc.op # "idle"
    /\ reg["dispatcher"].pc = "none"
    /\ cpc' = NoCmd
    /\ hist' = [Busy(hist, "dispatcher") EXCEPT
                  !.subscribed = IF cpc.op = "start" /\ ~hist.voided
                                 THEN @ \cup {cpc.chat} ELSE @,
                  !.stopped = IF cpc.op = "stop" THEN @ \cup {cpc.chat} ELSE @,
                  !.voided = FALSE]
    /\ UNCHANGED <<heap, chats, store, cache, proxy_on, now, pc, page, slots, msg,
                   it, reg, cmds, slowFetches, horizon, tz>>

---------------------------------------------------------------------------
ParseThread ==
    \/ FetchOk
    \/ FetchRateLimited
    \/ FetchRaises
    \/ Backoff
    \/ ParseOk
    \/ ParseRaises
    \/ SlotWithoutAnchor
    \/ SendCached
    \/ SendNew
    \/ Deliver
    \/ DeliverDone
    \/ Expire
    \/ Sleep
    \/ RegistryStep("parse")

DispatcherThread ==
    \/ Start
    \/ Stop
    \/ Reply
    \/ RegistryStep("dispatcher")

Next == ParseThread \/ DispatcherThread

Spec == Init /\ [][Next]_vars

\* The threads of Bot.start are scheduled by the operating system: the parse
\* thread is not starved.
LiveSpec == Init /\ [][Next]_vars /\ WF_vars(ParseThread)

---------------------------------------------------------------------------
\* The runs in which the poll cycles keep completing: every request returns 200
\* with a page that parses and holds SlotA, and no command arrives.  They are
\* observed for longer.
PageHolds(p, m) == \E i \in 1 .. Len(p) : p[i] = <<m>>

SteadyFetch == FetchOk /\ PageHolds(page', SlotA)

SteadyCycle ==
    \/ SteadyFetch
    \/ ParseOk
    \/ SlotWithoutAnchor
    \/ SendCached
    \/ SendNew
    \/ Deliver
    \/ DeliverDone
    \/ Expire
    \/ Sleep
    \/ RemoveCompute("parse")
    \/ RemoveStore("parse")
    \/ PersistOpen("parse")
    \/ PersistLoad("parse")
    \/ PersistDump("parse")

SteadyInit == InitIn([horizon |-> MaxSteadyTime, cmds |-> 0, tz |-> 0])

SteadySpec == SteadyInit /\ [][SteadyCycle]_vars /\ WF_vars(SteadyCycle)

---------------------------------------------------------------------------
\* Steps and states the claims speak of.

\* __send_message passes the cache check for m: m is recorded with timestamp now.
Broadcast(m) ==
    /\ pc = "Slots"
    /\ Len(cache') = Len(cache) + 1
    /\ cache'[Len(cache')] = [message |-> m, ts |-> now]

\* The loop over the slots visits a cell whose href is m.
Visits(m) ==
    /\ pc = "Slots"
    /\ slots # <<>>
    /\ Head(slots) = <<m>>
    /\ slots' = Tail(slots)

\* `for c in self.chats` is exhausted and the last __remove_chat has returned.
AtLoopEnd ==
    /\ pc = "Delivering"
    /\ reg["parse"].pc = "none"
    /\ it.idx > Len(heap[it.ref])

NoRegistryOp == \A t \in Threads : reg[t].pc = "none"

\* line 114: the date in md_msg, the text being delivered.
MdMsgDate == DateFromMsg(msg, tz)

---------------------------------------------------------------------------
\* C1: the same identifier is never broadcast twice within 300 seconds: when
\* __send_message records m with timestamp t2 and m was last recorded with
\* timestamp t1, then t2 - t1 >= 300.
C1_NoRepeatInWindow ==
    [][\A m \in Hrefs :
         (Broadcast(m) /\ hist.lastTs[m] >= 0) => now - hist.lastTs[m] >= CacheWindow]_vars

C1_Witness ==
    /\ hist.repeated[SlotA]
    /\ hist.lastTs[SlotA] = now
    /\ MsgInCache(cache, SlotA)

\* C2 as stated: with SlotA recorded at t and not seen on a page inside (t, t+300),
\* a cycle at a time >= t+300 whose page holds SlotA broadcasts it.
C2_FirstCycleAfterWindow ==
    [][(/\ Visits(SlotA)
        /\ hist.lastTs[SlotA] >= 0
        /\ now >= hist.lastTs[SlotA] + CacheWindow
        /\ ~hist.seenInWindow) => Broadcast(SlotA)]_vars

\* C2 as amended: with SlotA recorded at t, once __clear_cache has run at a time
\* >= t+300, the next cycle whose page holds SlotA broadcasts it again (whether or
\* not SlotA was seen on a page in between).
C2_AfterExpiryPass ==
    [][(/\ Visits(SlotA)
        /\ hist.lastTs[SlotA] >= 0
        /\ hist.expired[SlotA]) => Broadcast(SlotA)]_vars

C2_Witness ==
    /\ pc = "Delivering"
    /\ msg = SlotA
    /\ hist.repeated[SlotA]
    /\ ~hist.seenInWindow
    /\ hist.lastTs[SlotA] = now

\* C3: while deliveries for an identifier are attempted its entry is in the cache,
\* with the timestamp of the broadcast, and whatever the deliveries do, an entry
\* stays in the cache for the whole window.
C3_CachedBeforeDelivery ==
    /\ pc = "Delivering" =>
          \E i \in 1 .. Len(cache) :
              cache[i] = [message |-> msg, ts |-> hist.lastTs[msg]]
    /\ \A m \in Hrefs :
          (hist.lastTs[m] >= 0 /\ now - hist.lastTs[m] < CacheWindow)
              => MsgInCache(cache, m)

C3_Witness ==
    /\ AtLoopEnd
    /\ Len(hist.attempts) = 2
    /\ hist.blocked = Range(hist.attempts)
    /\ MsgInCache(cache, msg)

\* C4: a cycle whose fetch returns 429 sleeps 300 seconds, flips proxy_on once and
\* goes back to fetching: no parsing, no broadcast, no __clear_cache, no 45-second
\* sleep; cache, registry and store are as they were.
C4_RateLimitedCycle ==
    [][/\ (pc = "Fetching" /\ pc' = "Backoff") =>
             /\ proxy_on' = proxy_on
             /\ UNCHANGED <<cache, heap, chats, store, slots, it>>
       /\ (pc = "Backoff" /\ pc' # "Backoff") =>
             /\ pc' = "Fetching"
             /\ now' = now + BackoffSleep
             /\ proxy_on' = ~proxy_on
             /\ GetUrl(proxy_on') # GetUrl(proxy_on)
             /\ UNCHANGED <<cache, heap, chats, store, slots, it>>
             /\ hist' = hist]_vars

C4_Witness ==
    /\ pc = "Fetching"
    /\ now = BackoffSleep
    /\ slowFetches = 0
    /\ proxy_on
    /\ cache = <<>>

\* C5: the poll loop never stops: whatever raised or returned 429, the loop fetches
\* again (as long as the next sleep ends inside the run observed).
C5_AlwaysFetchesAgain ==
    (pc # "Fetching" /\ now + BackoffSleep <= horizon) ~> (pc = "Fetching")

C5_Witness ==
    /\ pc = "Fetching"
    /\ now = PollSleep
    /\ proxy_on

\* C6: a broadcast during which no handler runs leaves the registry with exactly
\* the entries it had at the start whose delivery did not say "blocked".
C6_BlockedRemoved ==
    (AtLoopEnd /\ hist.quiet) =>
        /\ Registry = SelectSeq(hist.bStart, LAMBDA c : c \notin hist.blocked)
        /\ Cardinality(Range(Registry)) =
              Cardinality(Range(hist.bStart)) - Cardinality(hist.blocked)

C6_Witness ==
    /\ AtLoopEnd
    /\ hist.quiet
    /\ Len(hist.bStart) = 2
    /\ Cardinality(hist.blocked) = 1
    /\ Len(Registry) = 1

C8_NoLostUpdate == hist.subscribed \subseteq Range(Registry)

\* C9: the registry never holds the same chat twice.
C9_NoDuplicates == NoDup(Registry)

\* C10: whenever no add or remove is in progress, chats.json reloads to the
\* registry's set of chats.
C10_StoreMatchesRegistry ==
    (NoRegistryOp /\ cpc.op = "idle") => Range(JsonLoad(store)) = Range(Registry)

---------------------------------------------------------------------------
\* The step in which line 99 runs.
ExpiryPass == pc = "Slots" /\ pc' = "Sleeping"

\* C11: right after __clear_cache has run at time now, no entry of the cache has
\* now - ts >= 300, and every entry that had now - ts < 300 is still there with
\* its identifier and timestamp, in the same order; nothing is added.
C11_ExpiryBoundary ==
    [][ExpiryPass =>
          /\ \A j \in 1 .. Len(cache') : ~(now - cache'[j].ts >= CacheWindow)
          /\ \A i \in 1 .. Len(cache) :
                now - cache[i].ts < CacheWindow =>
                    \E j \in 1 .. Len(cache') : cache'[j] = cache[i]
          /\ Range(cache') \subseteq Range(cache)
          /\ \A i, j \in 1 .. Len(cache') :
                i < j => \E k, l \in 1 .. Len(cache) :
                            k < l /\ cache[k] = cache'[i] /\ cache[l] = cache'[j]]_vars

\* An entry exactly 300 seconds old has just been removed, a younger one is kept.
C11_Witness ==
    /\ pc = "Sleeping"
    /\ hist.lastTs[SlotA] >= 0
    /\ now - hist.lastTs[SlotA] = CacheWindow
    /\ ~MsgInCache(cache, SlotA)
    /\ MsgInCache(cache, SlotBad)

\* C12: the text delivered carries the date, in UTC, of the epoch in the second to
\* last segment of the identifier plus 7200 seconds, as day and month, whatever the
\* time zone of the process: "15 November" for 1700000000.
C12_DateInUtc ==
    pc = "Delivering" =>
        /\ MdMsgDate =
              Strftime(UtcFromTimestamp(IntOf(SecondToLast(Split(msg))) + BerlinOffset))
        /\ msg = SlotA => MdMsgDate = <<1, 5, " ", "November">>

\* C13: in a cycle whose fetch and parse succeeded, every identifier of the page
\* that is not in the cache is recorded and a broadcast of it to the registry starts
\* at once; an identifier that is in the cache leaves the cache alone and starts no
\* delivery; and whatever is raised for a cell, the loop goes on to the next cell
\* and ends with __clear_cache.
C13_CycleProcessing ==
    [][/\ \A m \in Hrefs :
             Visits(m) =>
                IF MsgInCache(cache, m)
                THEN cache' = cache /\ pc' = "Slots" /\ it' = NoIter
                ELSE /\ Broadcast(m)
                     /\ pc' = "Delivering"
                     /\ msg' = m
                     /\ it' = [ref |-> chats, idx |-> 1]
       /\ (pc \in {"Slots", "Delivering"} /\ pc' \notin {"Slots", "Delivering"})
             => ExpiryPass]_vars

\* C14: when requests.get raises, the cycle flips proxy_on once and does nothing
\* else (no parsing, no broadcast, no __clear_cache: cache, registry and store are
\* as they were), then sleeps 45 seconds, and the next request goes the other way.
C14_TransportErrorCycle ==
    [][/\ (pc = "Fetching" /\ pc' = "Sleeping") =>
             /\ hist'.raised = "fetch"
             /\ proxy_on' = ~proxy_on
             /\ GetUrl(proxy_on') # GetUrl(proxy_on)
             /\ UNCHANGED <<cache, heap, chats, store, page, slots, msg, it, reg>>
       /\ (pc = "Sleeping" /\ hist.raised = "fetch" /\ pc' # pc) =>
             /\ pc' = "Fetching"
             /\ now' = now + PollSleep
             /\ proxy_on' = proxy_on
             /\ UNCHANGED <<cache, heap, chats, store, page, slots, msg, it, reg>>
       /\ (pc = "Sleeping" /\ hist.raised = "fetch") => reg["parse"].pc = "none"]_vars

\* The second request raised: the cache of the first cycle is there, the next
\* request will go through the proxy.
C14_Witness ==
    /\ pc = "Sleeping"
    /\ hist.raised = "fetch"
    /\ now = PollSleep
    /\ GetUrl(proxy_on) = "socks5"
    /\ MsgInCache(cache, SlotA)
    /\ hist.lastTs[SlotA] = 0

\* C15: proxy_on is False at startup and flips only at the end of a 429 backoff or
\* in the top-level handler, once each time; walking the slots, delivering (also
\* when a cell or a delivery raises), __clear_cache, the sleep and the command
\* handlers leave it alone.
C15_ProxyFrame ==
    /\ proxy_on = FALSE
    /\ [][/\ proxy_on' # proxy_on =>
                \/ pc = "Backoff" /\ pc' = "Fetching"
                \/ /\ pc \in {"Fetching", "Parsing"}
                   /\ pc' = "Sleeping"
                   /\ hist.raised = "none"
                   /\ hist'.raised # "none"
          /\ (pc = "Backoff" /\ pc' = "Fetching") => proxy_on' = ~proxy_on
          /\ hist'.raised \notin {hist.raised, "none"} => proxy_on' = ~proxy_on
          /\ (pc \in {"Slots", "Delivering", "Sleeping"} \/ ExpiryPass)
                => proxy_on' = proxy_on
          /\ (cpc' # cpc \/ reg'["dispatcher"] # reg["dispatcher"])
                => proxy_on' = proxy_on]_vars

\* The first cycle is over, in which a date could not be derived and a slot was
\* broadcast: proxy_on is as it was at startup.
C15_Witness ==
    /\ pc = "Sleeping"
    /\ hist.raised = "none"
    /\ now = 0
    /\ MsgInCache(cache, SlotBad)
    /\ MsgInCache(cache, SlotA)
    /\ Len(Registry) = 1
    /\ proxy_on = FALSE

\* C16: parsing never takes the cycle to the top-level handler: whether lines
\* 87-89 return or raise, the cycle goes on to the loop over the slots with proxy_on
\* and the cache as they were, and with no slots when they raised, so that
\* __clear_cache and the sleep follow as after a page without bookable cells.
C16_ParseFailureIsEmptyPage ==
    [][(pc = "Parsing" /\ pc' # pc) =>
          /\ pc' = "Slots"
          /\ proxy_on' = proxy_on
          /\ cache' = cache
          /\ hist'.raised = "parse" => slots' = <<>>]_vars

\* An entry evicted by the first __clear_cache at or after its 300 seconds is
\* recorded again at most this long after it was recorded.
RepeatWithin == CacheWindow + 2 * (PollSleep + MaxLatency)

\* C17: seeing a cached identifier again leaves the cache as it is (the timestamp
\* stays that of the first record, no second entry); in runs whose cycles keep
\* completing with SlotA on every page, SlotA in the cache is always broadcast
\* again later (as long as the run observed lasts), and never less than 300 seconds
\* after the broadcast before.
C17_BroadcastAgain ==
    /\ [][\A m \in Hrefs :
             /\ (Visits(m) /\ MsgInCache(cache, m)) => cache' = cache
             /\ (Broadcast(m) /\ hist.lastTs[m] >= 0)
                   => now - hist.lastTs[m] >= CacheWindow]_vars
    /\ (/\ MsgInCache(cache, SlotA)
        /\ hist.lastTs[SlotA] < now
        /\ now + RepeatWithin <= horizon)
          ~> (pc = "Delivering" /\ msg = SlotA /\ hist.lastTs[SlotA] = now)

\* The third broadcast of SlotA.
C17_Witness ==
    /\ pc = "Delivering"
    /\ msg = SlotA
    /\ hist.lastTs[SlotA] = now
    /\ now >= 2 * CacheWindow
    /\ Len(cache) = 1

\* C18: an identifier is recorded in the cache only when a delivery of it is
\* attempted in the same cycle: with a registry that is not empty, the step that
\* records it starts the delivery loop, and the loop does not end before a first
\* attempt.
C18_RecordedOnlyIfAttempted ==
    [][/\ \A m \in Hrefs :
             (Broadcast(m) /\ Registry # <<>>) =>
                 /\ pc' = "Delivering"
                 /\ msg' = m
                 /\ it' = [ref |-> chats, idx |-> 1]
       /\ (AtLoopEnd /\ pc' = "Slots" /\ hist.bStart # <<>>)
             => Len(hist.attempts) >= 1]_vars

\* C19: once /stop of chat c has completed, send_message is not called for c
\* before a /start of c arrives, also when a broadcast was in progress while the
\* command was handled.
C19_NoDeliveryAfterStop ==
    [][(pc = "Delivering" /\ it'.ref = it.ref /\ it'.idx = it.idx + 1)
          => heap[it.ref][it.idx] \notin hist.stopped]_vars

====
